---- MODULE Spec2Model ----
(***************************************************************************)
(* Model of scripts/modernize_gallery.py: the batch that rewrites legacy   *)
(* gallery pages into the modern template, archiving each original first.  *)
(*                                                                         *)
(* A document is a record of what the script's regular expressions can     *)
(* see in it:                                                              *)
(*   doctype, layout  the two substrings is_already_modernized looks for   *)
(*   fontBlock        the <font size="2" color="#FFFFFF"> block            *)
(*   anchors          the <a href="gallery_*.htm"><img src=...> pairs in   *)
(*                    document order; class "active" is the active flag    *)
(*   prev_arrow, next_arrow   target of the anchor around the prev_arrow / *)
(*                    next_arrow image, "" when there is none              *)
(*   large            the ../images/gallery/*_lg.jpg source, "" when none  *)
(*   invalid          the bytes on disk hold sequences that are not UTF-8  *)
(* Files on disk hold bytes; what the script reads is Decode of them.      *)
(* Python sequences are 0-based, the sequences here are 1-based.           *)
(***************************************************************************)
EXTENDS Naturals, Sequences, FiniteSets

VARIABLES
    gallery_files,      \* main: sorted(glob(GALLERY_DIR / "gallery_*.htm"))
    live,               \* bytes of each file of GALLERY_DIR
    archive,            \* bytes of each file of ARCHIVE_DIR, None when absent
    pc,                 \* main's position
    i,                  \* index of the loop `for filepath in gallery_files`
    filename,           \* main: filename of the current iteration
    new_html,           \* main: first result of process_gallery_file
    status,             \* main: second result of process_gallery_file
    thumbnails,         \* process_gallery_file: result of extract_thumbnails
    prev_link,          \* process_gallery_file: result of extract_navigation
    next_link,
    original_content,   \* main: the text read back for the archive copy
    success_count,
    skip_count,
    error_count,
    run,                \* number of the current invocation of main
    pre,                \* history: live at the start of this run
    preArchive,         \* history: archive at the start of this run
    outcome,            \* history: status main got for each file in this run
    converted           \* history: the run that replaced each file, 0 for none

vars == <<gallery_files, live, archive, pc, i, filename, new_html, status,
          thumbnails, prev_link, next_link, original_content,
          success_count, skip_count, error_count, run,
          pre, preArchive, outcome, converted>>

\* ---------------------------------------------------------------- bounds
MaxThumbs == 3      \* longest anchor sequence of a document (one-file runs)
MaxRuns == 2        \* invocations of main in one behaviour

\* ------------------------------------------------------------ file names
N1 == "gallery_a_01.htm"
N2 == "gallery_a_02.htm"
N3 == "gallery_old.htm"
N9 == "gallery_a_09.htm"
Names == {N1, N2, N3}

SmSrc == "../images/gallery/a_01_sm.jpg"
GifSrc == "../images/spacer.gif"
LgSrc == "../images/gallery/a_01_lg.jpg"

\* Python's None
None == [none |-> TRUE]

\* A file just opened with mode 'w': truncated, nothing written yet.
EmptyDoc ==
    [doctype |-> FALSE, layout |-> FALSE, fontBlock |-> FALSE,
     anchors |-> <<>>, prev_arrow |-> "", next_arrow |-> "",
     large |-> "", invalid |-> FALSE]

\* ------------------------------------------------------ text <-> bytes
\* open(path, 'r', encoding='utf-8', errors='replace').read(): every byte
\* sequence that is not UTF-8 becomes U+FFFD, the rest is kept.
Decode(bytes) == [bytes EXCEPT !.invalid = FALSE]

\* open(path, 'w', encoding='utf-8').write(text): U+FFFD is written as the
\* valid sequence EF BF BD, so the bytes written are always valid UTF-8.
Encode(text) == [text EXCEPT !.invalid = FALSE]

\* ------------------------------------------------------------ extractors
extract_production_info(content) ==
    IF content.fontBlock THEN [found |-> TRUE] ELSE None

extract_thumbnails(content) ==
    LET small == SelectSeq(content.anchors, LAMBDA a : a.src = SmSrc)
    IN  [k \in 1..Len(small) |-> [href |-> small[k].href, src |-> small[k].src]]

\* list.index: the first position holding x (0 here when there is none,
\* where Python raises ValueError)
Index(seq, x) ==
    IF \E k \in 1..Len(seq) : seq[k] = x
    THEN CHOOSE k \in 1..Len(seq) :
            seq[k] = x /\ \A j \in 1..(k - 1) : seq[j] # x
    ELSE 0

\* extract_navigation without the wrap-around at the two ends
extract_navigation_nowrap(content, thumbs, current_filename) ==
    LET prev_match == content.prev_arrow
        next_match == content.next_arrow
        thumb_hrefs == [k \in 1..Len(thumbs) |-> thumbs[k].href]
        n == Len(thumb_hrefs)
        current_idx == Index(thumb_hrefs, current_filename)
    IN  IF thumbs # <<>> /\ (prev_match = "" \/ next_match = "") /\ current_idx # 0
        THEN [prev |-> IF prev_match = ""
                       THEN (IF current_idx = 1 THEN ""
                             ELSE thumb_hrefs[current_idx - 1])
                       ELSE prev_match,
              next |-> IF next_match = ""
                       THEN (IF current_idx = n THEN ""
                             ELSE thumb_hrefs[current_idx + 1])
                       ELSE next_match]
        ELSE [prev |-> prev_match, next |-> next_match]

\* extract_navigation with the inferred links replacing the explicit ones
extract_navigation_overwrite(content, thumbs, current_filename) ==
    LET prev_match == content.prev_arrow
        next_match == content.next_arrow
        thumb_hrefs == [k \in 1..Len(thumbs) |-> thumbs[k].href]
        n == Len(thumb_hrefs)
        current_idx == Index(thumb_hrefs, current_filename)
    IN  IF thumbs # <<>> /\ (prev_match = "" \/ next_match = "") /\ current_idx # 0
        THEN [prev |-> IF current_idx = 1 THEN thumb_hrefs[n]
                       ELSE thumb_hrefs[current_idx - 1],
              next |-> IF current_idx = n THEN thumb_hrefs[1]
                       ELSE thumb_hrefs[current_idx + 1]]
        ELSE [prev |-> prev_match, next |-> next_match]

extract_navigation(content, thumbs, current_filename) ==
    LET prev_match == content.prev_arrow
        next_match == content.next_arrow
        thumb_hrefs == [k \in 1..Len(thumbs) |-> thumbs[k].href]
        n == Len(thumb_hrefs)
        current_idx == Index(thumb_hrefs, current_filename)
    IN  IF thumbs # <<>> /\ (prev_match = "" \/ next_match = "") /\ current_idx # 0
        THEN [prev |-> IF prev_match = ""
                       THEN (IF current_idx = 1 THEN thumb_hrefs[n]
                             ELSE thumb_hrefs[current_idx - 1])
                       ELSE prev_match,
              next |-> IF next_match = ""
                       THEN (IF current_idx = n THEN thumb_hrefs[1]
                             ELSE thumb_hrefs[current_idx + 1])
                       ELSE next_match]
        ELSE [prev |-> prev_match, next |-> next_match]

\* extract_large_image with a pattern that does not ask for the _lg.jpg suffix
extract_large_image_any_image(content) ==
    IF content.large # "" THEN content.large
    ELSE IF content.anchors # <<>> THEN content.anchors[1].src
    ELSE ""

extract_large_image(content) == content.large

\* generate_modern_html marking the first grid entry instead of the current one
generate_modern_html_first_active(info, thumbs, prev, next, large_image, current_filename) ==
    [doctype |-> TRUE, layout |-> TRUE, fontBlock |-> FALSE,
     anchors |-> [k \in 1..Len(thumbs) |->
                    [href |-> thumbs[k].href, src |-> thumbs[k].src,
                     active |-> (k = 1)]],
     prev_arrow |-> prev, next_arrow |-> next,
     large |-> large_image, invalid |-> FALSE]

\* generate_modern_html with a template whose layout class has another name
generate_modern_html_other_class(info, thumbs, prev, next, large_image, current_filename) ==
    [doctype |-> TRUE, layout |-> FALSE, fontBlock |-> FALSE,
     anchors |-> [k \in 1..Len(thumbs) |->
                    [href |-> thumbs[k].href, src |-> thumbs[k].src,
                     active |-> (thumbs[k].href = current_filename)]],
     prev_arrow |-> prev, next_arrow |-> next,
     large |-> large_image, invalid |-> FALSE]

\* The template: it holds both marker substrings, anchors around the arrow
\* images and the large image, one grid entry per thumbnail, and no
\* <font> block.
generate_modern_html(info, thumbs, prev, next, large_image, current_filename) ==
    [doctype |-> TRUE, layout |-> TRUE, fontBlock |-> FALSE,
     anchors |-> [k \in 1..Len(thumbs) |->
                    [href |-> thumbs[k].href, src |-> thumbs[k].src,
                     active |-> (thumbs[k].href = current_filename)]],
     prev_arrow |-> prev, next_arrow |-> next,
     large |-> large_image, invalid |-> FALSE]

is_already_modernized(content) == content.doctype /\ content.layout

ExcludedNames == {"gallery.htm", "gallery_old.htm", "gallery-new.htm"}

Result(html, st, thumbs, prev, next) ==
    [new_html |-> html, status |-> st, thumbnails |-> thumbs,
     prev_link |-> prev, next_link |-> next]

\* readable: whether open/read of the file succeeds; bytes: what it holds
process_gallery_file(name, readable, bytes) ==
    IF name \in ExcludedNames THEN Result(None, "Skipped (index file)", <<>>, "", "")
    ELSE IF ~readable THEN Result(None, "Error reading", <<>>, "", "")
    ELSE LET content == Decode(bytes)
             info == extract_production_info(content)
             thumbs == extract_thumbnails(content)
             nav == extract_navigation(content, thumbs, name)
             large_image == extract_large_image(content)
         IN  IF is_already_modernized(content)
                THEN Result(None, "Already modernized", <<>>, "", "")
             ELSE IF info = None
                THEN Result(None, "Could not extract production info", <<>>, "", "")
             ELSE IF thumbs = <<>>
                THEN Result(None, "Could not extract thumbnails", thumbs, "", "")
             ELSE IF nav.prev = "" \/ nav.next = ""
                THEN Result(None, "Could not extract navigation", thumbs, nav.prev, nav.next)
             ELSE IF large_image = ""
                THEN Result(None, "Could not extract large image", thumbs, nav.prev, nav.next)
             ELSE Result(generate_modern_html(info, thumbs, nav.prev, nav.next,
                                              large_image, name),
                         "Success", thumbs, nav.prev, nav.next)

\* main archiving and writing whatever process_gallery_file returned
Converts_always(html) == TRUE

\* main, line 330: `if new_html:`
Converts(html) == html # None

\* ------------------------------------------------------------ documents
Anchors(hrefs, srcs) ==
    [href : hrefs, src : srcs, active : {FALSE}]

SeqsUpTo(S, n) == UNION {[1..m -> S] : m \in 0..n}

Documents(anchorSeqs, arrows, markers, invalids) ==
    [doctype : markers, layout : markers, fontBlock : BOOLEAN,
     anchors : anchorSeqs, prev_arrow : arrows, next_arrow : arrows,
     large : {"", LgSrc}, invalid : invalids]

\* documents of the one-file runs: every anchor sequence up to MaxThumbs
PageDocuments ==
    Documents(SeqsUpTo(Anchors({N1, N2}, {SmSrc, GifSrc}), MaxThumbs),
              {"", N9}, BOOLEAN, {FALSE})

\* documents of the two-file runs
DirDocuments ==
    { d \in Documents({<<>>, <<[href |-> N1, src |-> SmSrc, active |-> FALSE]>>},
                      {"", N9}, BOOLEAN, BOOLEAN) :
        d.doctype = d.layout }

\* the directory listings, each in sorted order
OneFileDirs == {<<N1>>, <<N2>>, <<N3>>}
TwoFileDirs == {<<N1, N2>>, <<N1, N3>>, <<N2, N3>>}

Range(seq) == {seq[k] : k \in 1..Len(seq)}

\* ----------------------------------------------------------------- main
\* lines 315-324: the state main starts its loop from
Start(dir, files, arch, r) ==
    /\ gallery_files = dir
    /\ live = files
    /\ archive = arch
    /\ pc = "loop"
    /\ i = 1
    /\ filename = ""
    /\ new_html = None
    /\ status = ""
    /\ thumbnails = <<>>
    /\ prev_link = ""
    /\ next_link = ""
    /\ original_content = None
    /\ success_count = 0
    /\ skip_count = 0
    /\ error_count = 0
    /\ run = r
    /\ pre = files
    /\ preArchive = arch
    /\ outcome = [f \in Names |-> ""]
    /\ converted = [f \in Names |-> 0]

Absent == [f \in Names |-> None]

Directory(dir, docs) ==
    [f \in Names |-> IF \E k \in 1..Len(dir) : dir[k] = f
                     THEN docs[CHOOSE k \in 1..Len(dir) : dir[k] = f]
                     ELSE None]

\* a directory of two gallery pages, nothing archived yet
Init ==
    \E dir \in TwoFileDirs :
        \E d1 \in DirDocuments, d2 \in DirDocuments :
            Start(dir, Directory(dir, <<d1, d2>>), Absent, 1)

\* a directory of one gallery page, nothing archived yet
InitPage ==
    \E dir \in OneFileDirs :
        \E d \in PageDocuments :
            Start(dir, Directory(dir, <<d>>), Absent, 1)

SkipStatuses == {"Already modernized", "Skipped (index file)"}

\* lines 326-328 and, when no document came back, lines 344-352
ProcessFile ==
    /\ pc = "loop"
    /\ i <= Len(gallery_files)
    /\ \E readable \in BOOLEAN :
         LET name == gallery_files[i]
             r == process_gallery_file(name, readable, live[name])
         IN  /\ filename' = name
             /\ new_html' = r.new_html
             /\ status' = r.status
             /\ thumbnails' = r.thumbnails
             /\ prev_link' = r.prev_link
             /\ next_link' = r.next_link
             /\ IF Converts(r.new_html)
                THEN /\ pc' = "archive_read"
                     /\ UNCHANGED <<i, skip_count, error_count>>
                ELSE /\ pc' = "loop"
                     /\ i' = i + 1
                     /\ skip_count' =
                            IF r.status \in SkipStatuses THEN skip_count + 1
                            ELSE skip_count
                     /\ error_count' =
                            IF r.status \in SkipStatuses THEN error_count
                            ELSE error_count + 1
             /\ outcome' = [outcome EXCEPT ![name] = r.status]
    /\ UNCHANGED <<gallery_files, live, archive, original_content,
                   success_count, run, pre, preArchive, converted>>

\* lines 333-334: read the live file back; the read can raise
ArchiveRead ==
    /\ pc = "archive_read"
    /\ \E ok \in BOOLEAN :
         IF ok
         THEN /\ original_content' = Decode(live[filename])
              /\ pc' = "archive_open"
         ELSE /\ pc' = "aborted"
              /\ UNCHANGED original_content
    /\ UNCHANGED <<gallery_files, live, archive, i, filename, new_html, status,
                   thumbnails, prev_link, next_link, success_count, skip_count,
                   error_count, run, pre, preArchive, outcome, converted>>

\* line 335: open(archive_path, 'w') creates or truncates the archive copy
ArchiveOpen ==
    /\ pc = "archive_open"
    /\ \E ok \in BOOLEAN :
         IF ok
         THEN /\ archive' = [archive EXCEPT ![filename] = EmptyDoc]
              /\ pc' = "archive_write"
         ELSE /\ pc' = "aborted"
              /\ UNCHANGED archive
    /\ UNCHANGED <<gallery_files, live, i, filename, new_html, status,
                   thumbnails, prev_link, next_link, original_content,
                   success_count, skip_count, error_count, run, pre,
                   preArchive, outcome, converted>>

\* line 336 and the close of the with block
ArchiveWrite ==
    /\ pc = "archive_write"
    /\ \E ok \in BOOLEAN :
         IF ok
         THEN /\ archive' = [archive EXCEPT ![filename] = Encode(original_content)]
              /\ pc' = "live_open"
         ELSE /\ pc' = "aborted"
              /\ UNCHANGED archive
    /\ UNCHANGED <<gallery_files, live, i, filename, new_html, status,
                   thumbnails, prev_link, next_link, original_content,
                   success_count, skip_count, error_count, run, pre,
                   preArchive, outcome, converted>>

\* line 339: open(filepath, 'w') truncates the live file
LiveOpen ==
    /\ pc = "live_open"
    /\ \E ok \in BOOLEAN :
         IF ok
         THEN /\ live' = [live EXCEPT ![filename] = EmptyDoc]
              /\ pc' = "live_write"
         ELSE /\ pc' = "aborted"
              /\ UNCHANGED live
    /\ UNCHANGED <<gallery_files, archive, i, filename, new_html, status,
                   thumbnails, prev_link, next_link, original_content,
                   success_count, skip_count, error_count, run, pre,
                   preArchive, outcome, converted>>

\* lines 340-343: write the generated document, report and count it
LiveWrite ==
    /\ pc = "live_write"
    /\ \E ok \in BOOLEAN :
         IF ok
         THEN /\ live' = [live EXCEPT ![filename] = Encode(new_html)]
              /\ success_count' = success_count + 1
              /\ converted' = [converted EXCEPT ![filename] = run]
              /\ i' = i + 1
              /\ pc' = "loop"
         ELSE /\ pc' = "aborted"
              /\ UNCHANGED <<live, success_count, converted, i>>
    /\ UNCHANGED <<gallery_files, archive, filename, new_html, status,
                   thumbnails, prev_link, next_link, original_content,
                   skip_count, error_count, run, pre, preArchive, outcome>>

\* lines 354-355: the loop is over, the tally is printed
Finish ==
    /\ pc = "loop"
    /\ i > Len(gallery_files)
    /\ pc' = "done"
    /\ UNCHANGED <<gallery_files, live, archive, i, filename, new_html, status,
                   thumbnails, prev_link, next_link, original_content,
                   success_count, skip_count, error_count, run, pre,
                   preArchive, outcome, converted>>

\* the script is run again over the same directory (lines 315-324)
Rerun ==
    /\ pc \in {"done", "aborted"}
    /\ run < MaxRuns
    /\ pc' = "loop"
    /\ i' = 1
    /\ filename' = ""
    /\ new_html' = None
    /\ status' = ""
    /\ thumbnails' = <<>>
    /\ prev_link' = ""
    /\ next_link' = ""
    /\ original_content' = None
    /\ success_count' = 0
    /\ skip_count' = 0
    /\ error_count' = 0
    /\ run' = run + 1
    /\ pre' = live
    /\ preArchive' = archive
    /\ outcome' = [f \in Names |-> ""]
    /\ UNCHANGED <<gallery_files, live, archive, converted>>

Next ==
    \/ ProcessFile
    \/ ArchiveRead
    \/ ArchiveOpen
    \/ ArchiveWrite
    \/ LiveOpen
    \/ LiveWrite
    \/ Finish
    \/ Rerun

Spec == Init /\ [][Next]_vars

SpecPage == InitPage /\ [][Next]_vars

\* ------------------------------------------------------------- helpers
Files == Range(gallery_files)

\* what process_gallery_file makes of the content the file had at the
\* start of the run, when the read succeeds
Expected(f) == process_gallery_file(f, TRUE, pre[f])

\* position of f in the directory listing
Position(f) == Index(gallery_files, f)

Hrefs(thumbs) == [k \in 1..Len(thumbs) |-> thumbs[k].href]

Pred(k, n) == IF k = 1 THEN n ELSE k - 1
Succ(k, n) == IF k = n THEN 1 ELSE k + 1

\* statuses with which process_gallery_file returns after extract_navigation ran
NavigationRan ==
    {"Could not extract navigation", "Could not extract large image", "Success"}

NoExplicitArrows(f) == pre[f].prev_arrow = "" /\ pre[f].next_arrow = ""

ActiveEntries(doc) == {k \in 1..Len(doc.anchors) : doc.anchors[k].active}

Occurrences(thumbs, name) == {k \in 1..Len(thumbs) : thumbs[k].href = name}

\* -------------------------------------------------------------- claims

\* C1: at every point of a run the original content of every file is still
\* available, in the unmodified live file or in its archive copy (the archive
\* copy is complete before the live file is opened for overwrite).
C1_OriginalAlwaysAvailable ==
    \A f \in Files :
        /\ (pc \in {"live_open", "live_write"} /\ filename = f)
              => archive[f] \notin {None, EmptyDoc}
        /\ live[f] = pre[f] \/ archive[f] = pre[f]

\* C2: a file for which process_gallery_file returned no document keeps its
\* live content and gets no archive entry written in the run.
C2_NoDocumentNoChange ==
    \A f \in Files :
        (outcome[f] \notin {"", "Success"})
            => /\ Expected(f).new_html = None \/ outcome[f] = "Error reading"
               /\ live[f] = pre[f]
               /\ archive[f] = preArchive[f]

C2_Witness ==
    /\ pc = "done"
    /\ \E f \in Files : outcome[f] = "Could not extract thumbnails"
    /\ \E f \in Files : outcome[f] = "Success" /\ archive[f] # None

\* C3: no failure while handling a file aborts the batch.
C3_NoFailureAbortsBatch == pc # "aborted"

\* C4: after a completed run, each file counted as a success has an archive
\* copy byte-identical to its pre-run content and a live file holding the
\* document generated from that content.
C4_ArchiveByteIdentical ==
    pc = "done" =>
        \A f \in Files :
            outcome[f] = "Success"
                => /\ archive[f] = pre[f]
                   /\ live[f] = Expected(f).new_html

\* C5: in every state of a run each file is either archived and replaced by
\* the complete generated document, or untouched with no archive entry written.
C5_NoPartialWrites ==
    \A f \in Files :
        \/ /\ archive[f] # None
           /\ Expected(f).new_html # None
           /\ live[f] = Expected(f).new_html
        \/ /\ live[f] = pre[f]
           /\ archive[f] = preArchive[f]

\* C6 as stated: with no explicit arrows, for every position k at which the
\* current file occurs among the thumbnails, prev is the predecessor of k and
\* next the successor of k, wrapping at both ends.
C6_EveryPosition ==
    (status \in NavigationRan /\ NoExplicitArrows(filename))
        => \A k \in Occurrences(thumbnails, filename) :
              /\ prev_link = Hrefs(thumbnails)[Pred(k, Len(thumbnails))]
              /\ next_link = Hrefs(thumbnails)[Succ(k, Len(thumbnails))]

\* C6 amended: with no explicit arrows and the current file among the
\* thumbnails, prev and next are the wrapped predecessor and successor of the
\* FIRST position at which the current file occurs.
C6_FirstPosition ==
    (status \in NavigationRan /\ NoExplicitArrows(filename))
        => \A k \in Occurrences(thumbnails, filename) :
              (\A j \in Occurrences(thumbnails, filename) : k <= j)
                 => /\ prev_link = Hrefs(thumbnails)[Pred(k, Len(thumbnails))]
                    /\ next_link = Hrefs(thumbnails)[Succ(k, Len(thumbnails))]

C6_Witness ==
    /\ status = "Success"
    /\ NoExplicitArrows(filename)
    /\ Len(thumbnails) = 3
    /\ thumbnails[1].href = filename
    /\ thumbnails[3].href # filename
    /\ prev_link = thumbnails[3].href
    /\ next_link = thumbnails[2].href

\* C7: an explicit arrow link is never replaced by an inferred one; when the
\* current file is not among the thumbnails a direction without an explicit
\* link stays empty; and a file left with an empty direction fails with the
\* navigation error, with no archive entry and no write.
C7_InferenceOnlyFillsGaps ==
    status \in NavigationRan =>
        /\ pre[filename].prev_arrow # "" => prev_link = pre[filename].prev_arrow
        /\ pre[filename].next_arrow # "" => next_link = pre[filename].next_arrow
        /\ Occurrences(thumbnails, filename) = {} =>
              /\ pre[filename].prev_arrow = "" => prev_link = ""
              /\ pre[filename].next_arrow = "" => next_link = ""
        /\ (prev_link = "" \/ next_link = "") =>
              /\ status = "Could not extract navigation"
              /\ new_html = None
              /\ live[filename] = pre[filename]
              /\ archive[filename] = preArchive[filename]

C7_Witness ==
    /\ pc = "done"
    /\ status = "Could not extract navigation"
    /\ thumbnails # <<>>
    /\ Occurrences(thumbnails, filename) = {}
    /\ prev_link = N9
    /\ next_link = ""
    /\ archive[filename] = None

\* C8 as stated: every generated document has exactly one active grid entry,
\* the one whose link target is the current file.
C8_ExactlyOneActive ==
    new_html # None =>
        /\ Cardinality(ActiveEntries(new_html)) = 1
        /\ \A k \in ActiveEntries(new_html) : new_html.anchors[k].href = filename

\* C8 amended: in every generated document a grid entry is active exactly
\* when its link target is the current file, so there is exactly one active
\* entry when the current file occurs once among the thumbnails (none when it
\* does not occur, several when it occurs several times).
C8_ActiveIffCurrent ==
    new_html # None =>
        /\ Len(new_html.anchors) = Len(thumbnails)
        /\ ActiveEntries(new_html) = Occurrences(thumbnails, filename)
        /\ Cardinality(Occurrences(thumbnails, filename)) = 1
              => Cardinality(ActiveEntries(new_html)) = 1

C8_Witness ==
    /\ pc = "done"
    /\ status = "Success"
    /\ live[filename] = new_html
    /\ Len(thumbnails) = 3
    /\ ActiveEntries(new_html) = {2}

\* files that were read as legacy documents in this run
ReadAsLegacy(f) ==
    /\ outcome[f] \notin {"", "Skipped (index file)", "Error reading"}
    /\ ~is_already_modernized(Decode(pre[f]))

\* C9 as stated: a legacy document without the large-image reference is
\* reported with the large-image error, whatever else it contains or lacks.
C9_AlwaysLargeImageError ==
    \A f \in Files :
        (ReadAsLegacy(f) /\ pre[f].large = "")
            => outcome[f] = "Could not extract large image"

\* C9 amended: a legacy document without the large-image reference from which
\* the production info, at least one thumbnail and both navigation links were
\* extracted is reported with the large-image error; its live file and its
\* archive entry are unchanged, and the loop has moved on to the next file.
C9_LargeImageErrorAfterOtherFields ==
    \A f \in Files :
        /\ (/\ ReadAsLegacy(f)
            /\ pre[f].large = ""
            /\ pre[f].fontBlock
            /\ Expected(f).thumbnails # <<>>
            /\ Expected(f).prev_link # ""
            /\ Expected(f).next_link # "")
              => outcome[f] = "Could not extract large image"
        /\ outcome[f] = "Could not extract large image"
              => /\ pre[f].large = ""
                 /\ live[f] = pre[f]
                 /\ archive[f] = preArchive[f]
                 /\ i > Position(f)
                 /\ pc = "aborted" => filename # f

C9_Witness ==
    /\ pc = "done"
    /\ gallery_files = <<N1, N2>>
    /\ outcome[N1] = "Could not extract large image"
    /\ outcome[N2] = "Success"
    /\ live[N1] = pre[N1]
    /\ live[N2] # pre[N2]

====
